---- MODULE Spec2Model ----
(***************************************************************************)
(* Model of modrinth_installer.py: ModrinthInstaller.install_mod with its  *)
(* helpers get_project_info, get_versions, resolve_dependencies and        *)
(* download_file, and main().  The registry is external data fixed for a   *)
(* run; every HTTP call may fail on its own.                               *)
(***************************************************************************)
EXTENDS Integers, Sequences, FiniteSets, TLC

\* ------------------------------------------------------------------ bounds
NumProjects == 4   \* project ids known to the registry
MaxDeps     == 2   \* longest 'dependencies' list of a version
MaxVersions == 2   \* longest version list of a project
MaxFiles    == 2   \* longest 'files' list of a version
MaxFailures == 1   \* failing HTTP calls in one run
MaxRefs     == 4   \* dependency references in a whole graph

Projects == 1..NumProjects
\* the slug given on the command line
RootSlug == CHOOSE p \in Projects : \A q \in Projects : p <= q
Libs     == Projects \ {RootSlug}
LibA     == CHOOSE p \in Libs : \A q \in Libs : p <= q
LibB     == CHOOSE p \in Libs \ {LibA} : \A q \in Libs \ {LibA} : p <= q
\* deepest call stack the model follows (the code has no limit of its own)
MaxStack == NumProjects + 2

\* ------------------------------------------------------------- data model
Unset == ""        \* a falsy loader / game_version (None or "")
NoPin == <<>>      \* a dependency without version_id

Loaders      == {"forge", "fabric"}
GameVersions == {"1.20.1", "1.19"}
DependencyTypes == {"required", "optional", "incompatible", "embedded"}

Tag(l, g) == [loaders |-> {l}, game_versions |-> {g}]
Tags == {Tag("forge", "1.20.1"), Tag("fabric", "1.20.1"), Tag("forge", "1.19")}

FileRef(p, i, k, prim) == [filename |-> <<p, i, k>>, url |-> <<p, i, k>>, primary |-> prim]

DepRef(t, type, vid) == [project_id |-> t, dependency_type |-> type, version_id |-> vid]

VersionRecord(p, i, tag, deps, files) ==
    [id |-> <<p, i>>, loaders |-> tag.loaders, game_versions |-> tag.game_versions,
     dependencies |-> deps, files |-> files]

ProjectInfo(p) == [id |-> p, slug |-> p]

SeqsUpTo(S, n) == UNION {[1..k -> S] : k \in 0..n}

VARIABLES
    registry,      \* project -> its version list, in the registry's order
    loader,        \* install_mod's loader argument
    game_version,  \* install_mod's game_version argument
    pc,            \* where the process is
    main_version,  \* install_mod's main_version (a 0/1-element sequence)
    resolved,      \* the dict built by resolve_dependencies
    order,         \* the dict's keys in insertion order
    stack,         \* active resolve_dependencies calls: [version_data, i]
    dep_i,         \* position of install_mod's loop over dependencies.items()
    ret,           \* install_mod's return value ("None" until it returns)
    exit_code,     \* the process's exit status
    trace          \* the calls install_mod has made so far, in order

vars == <<registry, loader, game_version, pc, main_version, resolved, order,
          stack, dep_i, ret, exit_code, trace>>

\* ------------------------------------------------------- pure computations
\* get_versions, lines 49-51: a falsy criterion always matches
Compatible(version, l, g) ==
    /\ (l = Unset \/ l \in version.loaders)
    /\ (g = Unset \/ g \in version.game_versions)

\* the filter of lines 46-53 left out
get_versions_unfiltered(versions, l, g) == versions

\* line 46 with "and" for "or": the filter runs only when both criteria are set
get_versions_both_set(versions, l, g) ==
    IF l # Unset /\ g # Unset
    THEN SelectSeq(versions, LAMBDA v : Compatible(v, l, g))
    ELSE versions

\* get_versions, lines 46-55, on the list the registry returned
get_versions(versions, l, g) ==
    IF l # Unset \/ g # Unset
    THEN SelectSeq(versions, LAMBDA v : Compatible(v, l, g))
    ELSE versions

\* lines 86-90 left out: the newest compatible version whatever the pin
PickVersionLatest(dep, dep_versions) == dep_versions[1]

\* resolve_dependencies, lines 86-92: the pinned version if it is among
\* dep_versions, otherwise the first one
PickVersion(dep, dep_versions) ==
    IF dep.version_id # NoPin
       /\ \E k \in DOMAIN dep_versions : dep_versions[k].id = dep.version_id
    THEN LET k == CHOOSE k \in DOMAIN dep_versions :
                     /\ dep_versions[k].id = dep.version_id
                     /\ \A j \in 1..(k - 1) : dep_versions[j].id # dep.version_id
         IN  dep_versions[k]
    ELSE dep_versions[1]

\* the search of lines 166-170 left out: always the first file
FirstFile(files) == files[1]

\* install_mod, lines 165-173 and 199-207: the first file flagged primary,
\* otherwise the first file (files is not empty)
PrimaryOrFirst(files) ==
    IF \E k \in DOMAIN files : files[k].primary
    THEN LET k == CHOOSE k \in DOMAIN files :
                     /\ files[k].primary
                     /\ \A j \in 1..(k - 1) : ~files[j].primary
         IN  files[k]
    ELSE files[1]

\* line 66 letting optional references through as well
IsRequiredOrOptional(dep) == dep.dependency_type \in {"required", "optional"}

\* resolve_dependencies, line 66
IsRequired(dep) == dep.dependency_type = "required"

\* the membership test of line 70 left out
AlreadyResolvedNever(project_id, res) == FALSE

\* resolve_dependencies, line 70
AlreadyResolved(project_id, res) == project_id \in DOMAIN res

\* the assignment of lines 94-97 lost
SetItemDropped(res, project_id, entry) == res

\* resolve_dependencies, lines 94-97: dict item assignment
SetItem(res, project_id, entry) ==
    [k \in DOMAIN res \cup {project_id} |->
        IF k = project_id THEN entry ELSE res[k]]

\* a dict keeps a key's first insertion position
KeyOrder(ord, res, project_id) ==
    IF project_id \in DOMAIN res THEN ord ELSE Append(ord, project_id)

\* ------------------------------------------------------------ call record
HttpOps == {"get_project_info", "get_versions", "download_file"}

\* a call, its argument, whether it succeeded, and the phase that made it
Event(op, arg, ok) == [op |-> op, arg |-> arg, ok |-> ok, at |-> pc]

Failures == Cardinality({k \in DOMAIN trace : trace[k].op \in HttpOps /\ ~trace[k].ok})

\* one more HTTP call may raise RequestException
CanFail == Failures < MaxFailures

\* ------------------------------------------------------------------ inputs
Forge == Tag("forge", "1.20.1")

OneFile(p, i) == <<FileRef(p, i, 1, TRUE)>>

\* a file list with the given primary flags
Files(p, i, flags) == [k \in DOMAIN flags |-> FileRef(p, i, k, flags[k])]

\* a project with one version, compatible with forge 1.20.1
Simple(p, deps, files) == <<VersionRecord(p, 1, Forge, deps, files)>>

\* a project whose versions carry the given tags, newest first
Tagged(p, tags, deps) ==
    [i \in DOMAIN tags |-> VersionRecord(p, i, tags[i], deps, OneFile(p, i))]

Input(reg, l, g) == [registry |-> reg, loader |-> l, game_version |-> g]

\* the dependency lists of a graph given as its edges: edge j leads from
\* project from[j] to project to[j], and from is sorted
DepLists(from, to) ==
    [p \in Projects |->
        LET at == {j \in DOMAIN from : from[j] = p}
            lo == CHOOSE j \in at : \A h \in at : j <= h
        IN  [j \in 1..Cardinality(at) |-> DepRef(to[lo + j - 1], "required", NoPin)]]

\* the projects named by the root or by an edge before edge j
Named(to, j) == {RootSlug} \cup {to[h] : h \in 1..(j - 1)}

Highest(S) == CHOOSE p \in S : \A q \in S : q <= p

\* edge lists of at most MaxDeps edges per project, one per graph up to the
\* names of the projects: a project is named when it is first referenced, and
\* only a named (reachable) project has dependencies
Targets(k) ==
    {to \in [1..k -> Projects] : \A j \in 1..k : to[j] <= Highest(Named(to, j)) + 1}

Sources(k, to) ==
    {from \in [1..k -> Projects] :
        /\ \A j \in 1..(k - 1) : from[j] <= from[j + 1]
        /\ \A j \in 1..k : from[j] <= Highest(Named(to, j))
        /\ \A p \in Projects : Cardinality({j \in 1..k : from[j] = p}) <= MaxDeps}

\* dependency graphs: every project has one compatible version, published
\* without files; any project may require any other, itself and the root
\* included
GraphInputs ==
    LET Graphs == UNION {UNION {{DepLists(from, to) : from \in Sources(k, to)} :
                                   to \in Targets(k)} : k \in 0..MaxRefs}
    IN  {Input([p \in Projects |-> Simple(p, g[p], <<>>)], "forge", "1.20.1") :
            g \in Graphs}

\* the root requires LibA once or twice, with or without a pinned version;
\* LibA's versions carry any tags; the constraint has any field unset
PinInputs ==
    LET Pins == {NoPin} \cup {<<LibA, i>> : i \in 1..MaxVersions}
        Refs == {DepRef(LibA, "required", pin) : pin \in Pins}
    IN  {Input([p \in Projects |->
                   IF p = RootSlug THEN Simple(p, deps, OneFile(p, 1))
                   ELSE IF p = LibA THEN Tagged(p, tags, <<>>)
                   ELSE <<>>], l, g) :
            deps \in [1..1 -> Refs] \cup [1..2 -> Refs],
            tags \in SeqsUpTo(Tags, MaxVersions),
            l \in {Unset, "forge"}, g \in {Unset, "1.20.1"}}

\* the root lists LibA with any dependency_type; LibA requires LibB
TypeInputs ==
    LET Refs == {DepRef(LibA, t, NoPin) : t \in DependencyTypes}
    IN  {Input([p \in Projects |->
                   IF p = RootSlug THEN Simple(p, deps, OneFile(p, 1))
                   ELSE IF p = LibA
                        THEN Simple(p, <<DepRef(LibB, "required", NoPin)>>, OneFile(p, 1))
                   ELSE Simple(p, <<>>, OneFile(p, 1))], "forge", "1.20.1") :
            deps \in SeqsUpTo(Refs, MaxDeps)}

\* the root's versions carry any tags; the constraint has any field unset
RootInputs ==
    {Input([p \in Projects |->
               IF p = RootSlug THEN Tagged(p, tags, <<DepRef(LibA, "required", NoPin)>>)
               ELSE Simple(p, <<>>, OneFile(p, 1))], l, g) :
        tags \in SeqsUpTo(Tags, MaxVersions),
        l \in {Unset, "forge"}, g \in {Unset, "1.20.1"}}

\* the root requires LibA and LibB; the root and LibA have any file list,
\* LibB has one file
FileInputs ==
    LET Flags == SeqsUpTo(BOOLEAN, MaxFiles)
    IN  {Input([p \in Projects |->
                   IF p = RootSlug
                   THEN Simple(p, <<DepRef(LibA, "required", NoPin),
                                    DepRef(LibB, "required", NoPin)>>, Files(p, 1, fr))
                   ELSE IF p = LibA THEN Simple(p, <<>>, Files(p, 1, fa))
                   ELSE IF p = LibB THEN Simple(p, <<>>, OneFile(p, 1))
                   ELSE <<>>], "forge", "1.20.1") :
            fr \in Flags, fa \in Flags}

Inputs(family) ==
    CASE family = "graph" -> GraphInputs
      [] family = "pin"   -> PinInputs
      [] family = "type"  -> TypeInputs
      [] family = "root"  -> RootInputs
      [] family = "file"  -> FileInputs

\* main(): the installer is constructed and install_mod is about to run
Init ==
    /\ \E family \in {"graph", "pin", "type", "root", "file"} :
          \E inp \in Inputs(family) :
             /\ registry = inp.registry
             /\ loader = inp.loader
             /\ game_version = inp.game_version
    /\ pc = "fetch_root"
    /\ main_version = <<>>
    /\ resolved = <<>>
    /\ order = <<>>
    /\ stack = <<>>
    /\ dep_i = 1
    /\ ret = "None"
    /\ exit_code = 0
    /\ trace = <<>>

\* ----------------------------------------------------------------- actions
\* pc = "exited" is the end of the process. When install_mod returns, main()
\* drops the value and runs to its end (lines 232-238), so a return statement
\* of install_mod sets ret, leaves exit_code at 0 and moves pc to "exited".
\* outcomes of one HTTP call: TRUE, or FALSE when RequestException is raised
Outcomes == IF CanFail THEN BOOLEAN ELSE {TRUE}

Top == stack[Len(stack)]
Dep == Top.version_data.dependencies[Top.i]
InLoop == /\ pc = "resolve_deps"
          /\ stack # <<>>
          /\ Top.i <= Len(Top.version_data.dependencies)

\* the loop stepping over the reference that follows the current one
NextDepSkipsOne == [stack EXCEPT ![Len(stack)].i = @ + 2]

\* the for loop of resolve_dependencies moves to the next dependency
NextDep == [stack EXCEPT ![Len(stack)].i = @ + 1]

\* the test of line 181 never taken
MainFailedNever(main_downloaded) == FALSE

\* install_mod, line 181
MainFailed(main_downloaded) == ~main_downloaded

\* lines 136-138 left out: a root that was not found is used all the same
FetchRootContinues ==
    /\ pc = "fetch_root"
    /\ \E ok \in Outcomes :
          trace' = Append(trace, Event("get_project_info", RootSlug, ok))
    /\ pc' = "select_root_version"
    /\ UNCHANGED <<registry, loader, game_version, main_version, resolved, order,
                   stack, dep_i, ret, exit_code>>

\* install_mod, lines 134-138
FetchRoot ==
    /\ pc = "fetch_root"
    /\ \E ok \in Outcomes :
          /\ trace' = Append(trace, Event("get_project_info", RootSlug, ok))
          /\ IF ok
             THEN pc' = "select_root_version" /\ ret' = ret
             ELSE pc' = "exited" /\ ret' = "False"
    /\ UNCHANGED <<registry, loader, game_version, main_version, resolved, order,
                   stack, dep_i, exit_code>>

\* install_mod, lines 143-154: the newest compatible version becomes
\* main_version and resolve_dependencies is entered with a fresh dict
SelectRootVersion ==
    /\ pc = "select_root_version"
    /\ \E ok \in Outcomes :
          LET versions == IF ok THEN get_versions(registry[RootSlug], loader, game_version)
                          ELSE <<>>
              call == Event("get_versions", RootSlug, ok)
          IN  IF versions = <<>>
              THEN /\ pc' = "exited"
                   /\ ret' = "False"
                   /\ trace' = Append(trace, call)
                   /\ UNCHANGED <<main_version, stack>>
              ELSE /\ pc' = "resolve_deps"
                   /\ ret' = ret
                   /\ main_version' = <<versions[1]>>
                   /\ stack' = <<[version_data |-> versions[1], i |-> 1]>>
                   /\ trace' = trace \o <<call, Event("resolve_dependencies", versions[1].id,
                                                     TRUE)>>
    /\ UNCHANGED <<registry, loader, game_version, resolved, order, dep_i, exit_code>>

\* resolve_dependencies, lines 66-67
SkipNotRequired ==
    /\ InLoop
    /\ ~IsRequired(Dep)
    /\ stack' = NextDep
    /\ UNCHANGED <<registry, loader, game_version, pc, main_version, resolved, order,
                   dep_i, ret, exit_code, trace>>

\* lines 69-71 replaced by a second pick: a later reference to a stored
\* project overwrites its entry with the version that reference asks for
SkipResolvedRepicks ==
    /\ InLoop
    /\ IsRequired(Dep)
    /\ AlreadyResolved(Dep.project_id, resolved)
    /\ LET dep_versions == get_versions(registry[Dep.project_id], loader, game_version)
       IN  resolved' = [resolved EXCEPT ![Dep.project_id].version_data =
                                            PickVersion(Dep, dep_versions)]
    /\ stack' = NextDep
    /\ UNCHANGED <<registry, loader, game_version, pc, main_version, order,
                   dep_i, ret, exit_code, trace>>

\* resolve_dependencies, lines 69-71
SkipResolved ==
    /\ InLoop
    /\ IsRequired(Dep)
    /\ AlreadyResolved(Dep.project_id, resolved)
    /\ stack' = NextDep
    /\ UNCHANGED <<registry, loader, game_version, pc, main_version, resolved, order,
                   dep_i, ret, exit_code, trace>>

\* line 76 as a break: a failed fetch ends the loop over the dependencies
LookupProjectFailsBreaks ==
    /\ InLoop
    /\ IsRequired(Dep)
    /\ ~AlreadyResolved(Dep.project_id, resolved)
    /\ CanFail
    /\ trace' = Append(trace, Event("get_project_info", Dep.project_id, FALSE))
    /\ stack' = [stack EXCEPT ![Len(stack)].i = Len(Top.version_data.dependencies) + 1]
    /\ UNCHANGED <<registry, loader, game_version, pc, main_version, resolved, order,
                   dep_i, ret, exit_code>>

\* resolve_dependencies, lines 73-76: get_project_info returned None
LookupProjectFails ==
    /\ InLoop
    /\ IsRequired(Dep)
    /\ ~AlreadyResolved(Dep.project_id, resolved)
    /\ CanFail
    /\ trace' = Append(trace, Event("get_project_info", Dep.project_id, FALSE))
    /\ stack' = NextDep
    /\ UNCHANGED <<registry, loader, game_version, pc, main_version, resolved, order,
                   dep_i, ret, exit_code>>

\* resolve_dependencies, lines 73-84: the project is found, get_versions
\* returns an empty list (the call failed, or nothing is compatible)
LookupNoVersions ==
    /\ InLoop
    /\ IsRequired(Dep)
    /\ ~AlreadyResolved(Dep.project_id, resolved)
    /\ \E ok \in Outcomes :
          LET project_info == ProjectInfo(Dep.project_id)
              dep_versions == IF ok THEN get_versions(registry[project_info.slug],
                                                      loader, game_version)
                              ELSE <<>>
          IN  /\ dep_versions = <<>>
              /\ trace' = trace \o
                    <<Event("get_project_info", Dep.project_id, TRUE),
                      Event("get_versions", project_info.slug, ok)>>
    /\ stack' = NextDep
    /\ UNCHANGED <<registry, loader, game_version, pc, main_version, resolved, order,
                   dep_i, ret, exit_code>>

\* lines 94-97 moved behind the recursive call of line 100: the version's
\* list is entered while its project is not stored yet
LookupRecurseFirst ==
    /\ InLoop
    /\ IsRequired(Dep)
    /\ ~AlreadyResolved(Dep.project_id, resolved)
    /\ Len(stack) < MaxStack
    /\ LET project_id   == Dep.project_id
           project_info == ProjectInfo(project_id)
           dep_versions == get_versions(registry[project_info.slug], loader, game_version)
       IN  /\ dep_versions # <<>>
           /\ LET dep_version == PickVersion(Dep, dep_versions)
              IN  /\ stack' = Append(NextDep, [version_data |-> dep_version, i |-> 1])
                  /\ trace' = trace \o
                       <<Event("get_project_info", project_id, TRUE),
                         Event("get_versions", project_info.slug, TRUE),
                         Event("resolve_dependencies", dep_version.id, TRUE)>>
    /\ UNCHANGED <<registry, loader, game_version, pc, main_version, resolved, order,
                   dep_i, ret, exit_code>>

\* the dependency's file fetched as soon as its entry is stored, before the
\* rest of the graph is looked up
LookupInsertAndDownload ==
    /\ InLoop
    /\ IsRequired(Dep)
    /\ ~AlreadyResolved(Dep.project_id, resolved)
    /\ Len(stack) < MaxStack
    /\ LET project_id   == Dep.project_id
           project_info == ProjectInfo(project_id)
           dep_versions == get_versions(registry[project_info.slug], loader, game_version)
       IN  /\ dep_versions # <<>>
           /\ LET dep_version == PickVersion(Dep, dep_versions)
              IN  /\ resolved' = SetItem(resolved, project_id,
                                    [project_info |-> project_info,
                                     version_data |-> dep_version])
                  /\ order' = KeyOrder(order, resolved, project_id)
                  /\ stack' = Append(NextDep, [version_data |-> dep_version, i |-> 1])
                  /\ trace' = trace \o
                       <<Event("get_project_info", project_id, TRUE),
                         Event("get_versions", project_info.slug, TRUE),
                         Event("insert", project_id, TRUE),
                         Event("download_file", dep_version.id, TRUE),
                         Event("resolve_dependencies", dep_version.id, TRUE)>>
    /\ UNCHANGED <<registry, loader, game_version, pc, main_version, dep_i, ret, exit_code>>

\* resolve_dependencies, lines 73-100: the project and a compatible version
\* are found, the entry is stored and the version's own list is entered
LookupInsert ==
    /\ InLoop
    /\ IsRequired(Dep)
    /\ ~AlreadyResolved(Dep.project_id, resolved)
    /\ Len(stack) < MaxStack
    /\ LET project_id   == Dep.project_id
           project_info == ProjectInfo(project_id)
           dep_versions == get_versions(registry[project_info.slug], loader, game_version)
       IN  /\ dep_versions # <<>>
           /\ LET dep_version == PickVersion(Dep, dep_versions)
              IN  /\ resolved' = SetItem(resolved, project_id,
                                    [project_info |-> project_info,
                                     version_data |-> dep_version])
                  /\ order' = KeyOrder(order, resolved, project_id)
                  /\ stack' = Append(NextDep, [version_data |-> dep_version, i |-> 1])
                  /\ trace' = trace \o
                       <<Event("get_project_info", project_id, TRUE),
                         Event("get_versions", project_info.slug, TRUE),
                         Event("insert", project_id, TRUE),
                         Event("resolve_dependencies", dep_version.id, TRUE)>>
    /\ UNCHANGED <<registry, loader, game_version, pc, main_version, dep_i, ret, exit_code>>

\* resolve_dependencies, line 102: the loop is over, the call returns; the
\* outermost call returns to install_mod, line 154
ResolveReturn ==
    /\ pc = "resolve_deps"
    /\ stack # <<>>
    /\ Top.i > Len(Top.version_data.dependencies)
    /\ stack' = SubSeq(stack, 1, Len(stack) - 1)
    /\ pc' = IF Len(stack) = 1 THEN "download_main" ELSE pc
    /\ UNCHANGED <<registry, loader, game_version, main_version, resolved, order,
                   dep_i, ret, exit_code, trace>>

\* install_mod, lines 156-183
DownloadMain ==
    /\ pc = "download_main"
    /\ LET files == main_version[1].files
       IN  IF files = <<>>
           THEN /\ pc' = "exited"
                /\ ret' = "False"
                /\ UNCHANGED trace
           ELSE \E ok \in Outcomes :
                   /\ trace' = Append(trace, Event("download_file",
                                   PrimaryOrFirst(files).filename, ok))
                   /\ IF MainFailed(ok)
                      THEN pc' = "exited" /\ ret' = "False"
                      ELSE pc' = "download_deps" /\ ret' = ret
    /\ UNCHANGED <<registry, loader, game_version, main_version, resolved, order,
                   stack, dep_i, exit_code>>

\* a failed dependency transfer ends the loop over dependencies.items()
DownloadDepStopsOnFailure ==
    /\ pc = "download_deps"
    /\ dep_i <= Len(order)
    /\ LET dep_files == resolved[order[dep_i]].version_data.files
       IN  IF dep_files = <<>>
           THEN UNCHANGED trace /\ dep_i' = dep_i + 1
           ELSE \E ok \in Outcomes :
                   /\ trace' = Append(trace, Event("download_file",
                                   PrimaryOrFirst(dep_files).filename, ok))
                   /\ dep_i' = IF ok THEN dep_i + 1 ELSE Len(order) + 1
    /\ UNCHANGED <<registry, loader, game_version, pc, main_version, resolved, order,
                   stack, ret, exit_code>>

\* install_mod, lines 188-212: one pass of the loop over dependencies.items()
DownloadDep ==
    /\ pc = "download_deps"
    /\ dep_i <= Len(order)
    /\ LET dep_files == resolved[order[dep_i]].version_data.files
       IN  IF dep_files = <<>>
           THEN UNCHANGED trace
           ELSE \E ok \in Outcomes :
                   trace' = Append(trace, Event("download_file",
                                PrimaryOrFirst(dep_files).filename, ok))
    /\ dep_i' = dep_i + 1
    /\ UNCHANGED <<registry, loader, game_version, pc, main_version, resolved, order,
                   stack, ret, exit_code>>

\* line 218 returning False when some dependency transfer failed
InstallDoneStrict ==
    /\ pc = "download_deps"
    /\ dep_i > Len(order)
    /\ pc' = "exited"
    /\ ret' = IF \E k \in DOMAIN trace : trace[k].at = "download_deps" /\ ~trace[k].ok
              THEN "False" ELSE "True"
    /\ UNCHANGED <<registry, loader, game_version, main_version, resolved, order,
                   stack, dep_i, exit_code, trace>>

\* install_mod, lines 213-218; main() ends with status 0 (lines 232-238)
InstallDone ==
    /\ pc = "download_deps"
    /\ dep_i > Len(order)
    /\ pc' = "exited"
    /\ ret' = "True"
    /\ UNCHANGED <<registry, loader, game_version, main_version, resolved, order,
                   stack, dep_i, exit_code, trace>>

Running == pc \in {"fetch_root", "select_root_version", "resolve_deps",
                   "download_main", "download_deps"}

\* the file system is about to be used: mkdir (line 132), or open and write
\* in download_file (lines 113-116)
Writing ==
    \/ pc = "fetch_root" /\ trace = <<>>
    \/ pc = "download_main" /\ main_version[1].files # <<>>
    \/ /\ pc = "download_deps"
       /\ dep_i <= Len(order)
       /\ resolved[order[dep_i]].version_data.files # <<>>

\* main(), lines 239-244: an exception leaves install_mod, what it had built
\* is gone with its frame, and sys.exit(1) ends the process
Raised(exception) ==
    /\ pc' = "exited"
    /\ exit_code' = 1
    /\ main_version' = <<>>
    /\ resolved' = <<>>
    /\ order' = <<>>
    /\ stack' = <<>>
    /\ dep_i' = 1
    /\ trace' = <<[op |-> "except", arg |-> exception, ok |-> TRUE, at |-> "main"]>>
    /\ UNCHANGED <<registry, loader, game_version, ret>>

\* main(), lines 239-241: Ctrl-C while install_mod runs
KeyboardInterrupt ==
    /\ Running
    /\ Raised("KeyboardInterrupt")

\* main(), lines 242-244: download_file catches RequestException only, so an
\* OSError of open() or write() reaches main, as one of mkdir() does
UncaughtError ==
    /\ Writing
    /\ Raised("Exception")

Next ==
    \/ FetchRoot
    \/ SelectRootVersion
    \/ SkipNotRequired
    \/ SkipResolved
    \/ LookupProjectFails
    \/ LookupNoVersions
    \/ LookupInsert
    \/ ResolveReturn
    \/ DownloadMain
    \/ DownloadDep
    \/ InstallDone
    \/ KeyboardInterrupt
    \/ UncaughtError

Spec == Init /\ [][Next]_vars

\* ------------------------------------------------------------ observations
Keys == DOMAIN resolved

\* the events of one operation on one argument made in one phase
Calls(op, arg, at) ==
    {k \in DOMAIN trace : trace[k].op = op /\ trace[k].at = at /\ trace[k].arg = arg}

\* resolve_dependencies stored an entry for p this many times
Inserts(p) == Cardinality(Calls("insert", p, "resolve_deps"))

\* registry calls resolve_dependencies made for p
ProjCalls(p) == Cardinality(Calls("get_project_info", p, "resolve_deps"))
VerCalls(p)  == Cardinality(Calls("get_versions", p, "resolve_deps"))

\* HTTP failures among the registry calls resolve_dependencies made for p
FailedCalls(p) ==
    {k \in Calls("get_project_info", p, "resolve_deps")
           \cup Calls("get_versions", p, "resolve_deps") : ~trace[k].ok}

\* install_mod has returned (main() drops the value and the process ends
\* with status 0, lines 232-238)
Returned == pc = "exited" /\ ret # "None"

\* resolve_dependencies was called and has returned to install_mod
Resolved == main_version # <<>> /\ stack = <<>>

Requires(version, t) ==
    \E j \in DOMAIN version.dependencies :
        /\ version.dependencies[j].project_id = t
        /\ version.dependencies[j].dependency_type = "required"

\* one step of resolve_dependencies
ResolveStep ==
    \/ SkipNotRequired
    \/ SkipResolved
    \/ LookupProjectFails
    \/ LookupNoVersions
    \/ LookupInsert
    \/ ResolveReturn

RECURSIVE Remaining(_)
\* loop passes still ahead in the active calls
Remaining(frames) ==
    IF frames = <<>> THEN 0
    ELSE Len(frames[1].version_data.dependencies) + 1 - frames[1].i
         + Remaining(Tail(frames))

LongestDeps ==
    LET lens == {0} \cup UNION {{Len(registry[p][i].dependencies) :
                                     i \in DOMAIN registry[p]} : p \in Projects}
    IN  CHOOSE n \in lens : \A m \in lens : m <= n

\* a bound on the loop passes resolve_dependencies can still make
Measure ==
    (NumProjects - Cardinality(Keys)) * (LongestDeps + 2) + Remaining(stack) + Len(stack)

\* ------------------------------------------------------------------ claims
\* C1: resolve_dependencies terminates on every graph, cyclic ones and every
\* pattern of failed lookups included: each of its steps lowers Measure, which
\* is never negative, it is never stuck before it returns, its call stack stays
\* below the depth the model follows, and no project id is stored in the
\* resolution set more than once.
C1_ResolveTerminates ==
    /\ [](\A p \in Projects : Inserts(p) <= 1)
    /\ [](Measure >= 0)
    /\ [](pc = "resolve_deps" => ENABLED ResolveStep)
    /\ [](Len(stack) < MaxStack)
    /\ [][ResolveStep => Measure' < Measure]_vars

\* C1 witness: a cycle a -> b -> a of required dependencies was resolved.
C1_Witness ==
    /\ Resolved
    /\ \E a, b \in Keys :
          /\ a # b
          /\ Requires(resolved[a].version_data, b)
          /\ Requires(resolved[b].version_data, a)

\* C2: the root project's id is never a key of the resolution set.
C2_RootNeverKey == RootSlug \notin Keys

\* C3: every entry of the resolution set holds a version of its project that
\* matches the constraint: the loader is unset or among the version's
\* loaders, the game version is unset or among its game_versions.
C3_EntriesCompatible ==
    \A p \in Keys :
        LET v == resolved[p].version_data
        IN  /\ \E i \in DOMAIN registry[p] : registry[p][i] = v
            /\ loader = Unset \/ loader \in v.loaders
            /\ game_version = Unset \/ game_version \in v.game_versions

\* C3 witness: a dependency pinned to an existing version that does not match
\* the constraint was resolved to another version.
C3_Witness ==
    /\ Resolved
    /\ \E p \in Keys : \E j \in DOMAIN main_version[1].dependencies :
          LET dep == main_version[1].dependencies[j]
          IN  /\ dep.project_id = p
              /\ dep.version_id # NoPin
              /\ \E i \in DOMAIN registry[p] :
                    /\ registry[p][i].id = dep.version_id
                    /\ loader # Unset
                    /\ loader \notin registry[p][i].loaders
              /\ resolved[p].version_data.id # dep.version_id

\* the transfers of the main file and of p's file that were started
MainAttempts == {k \in DOMAIN trace :
                    trace[k].op = "download_file" /\ trace[k].at = "download_main"}

DepAttempts(p) ==
    {k \in DOMAIN trace :
        /\ trace[k].op = "download_file"
        /\ trace[k].at = "download_deps"
        /\ trace[k].arg = PrimaryOrFirst(resolved[p].version_data.files).filename}

\* the file chosen from main_version was transferred
MainTransferOK ==
    /\ main_version # <<>>
    /\ main_version[1].files # <<>>
    /\ \E k \in MainAttempts :
          /\ trace[k].ok
          /\ trace[k].arg = PrimaryOrFirst(main_version[1].files).filename

\* project c has a version matching the constraint
HasCompatible(c) ==
    \E i \in DOMAIN registry[c] :
        /\ loader = Unset \/ loader \in registry[c][i].loaders
        /\ game_version = Unset \/ game_version \in registry[c][i].game_versions

\* the versions whose dependency lists resolve_dependencies went through
Expanded == {main_version[1]} \cup {resolved[p].version_data : p \in Keys}

\* C4 as stated: when two distinct resolved projects both require a third
\* project c, c's metadata and version list were fetched exactly once in the resolve run and
\* c was stored exactly once.
C4_DiamondFetchedOnce ==
    Resolved =>
        \A a, b \in Keys : \A c \in Projects :
            (/\ a # b /\ a # c /\ b # c
             /\ Requires(resolved[a].version_data, c)
             /\ Requires(resolved[b].version_data, c))
            => ProjCalls(c) = 1 /\ VerCalls(c) = 1 /\ Inserts(c) = 1

\* C4 amended: a project is stored at most once and is a key exactly when it
\* was stored; every registry call resolve_dependencies makes for it comes
\* before it is stored; and a project that was looked up without an HTTP
\* failure and has a matching version was fetched exactly once and is a key.
C4_StoredOnceThenNoCalls ==
    LET lookups == {k \in DOMAIN trace :
                       /\ trace[k].at = "resolve_deps"
                       /\ trace[k].op \in {"get_project_info", "get_versions"}}
        stores  == {k \in DOMAIN trace : trace[k].op = "insert"}
    IN  \A c \in Projects :
            LET calls_c   == {k \in lookups : trace[k].arg = c}
                inserts_c == {k \in stores : trace[k].arg = c}
            IN  /\ Cardinality(inserts_c) <= 1
                /\ c \in Keys <=> inserts_c # {}
                /\ \A j \in inserts_c : \A k \in calls_c : k < j
                /\ (/\ calls_c # {}
                    /\ \A k \in calls_c : trace[k].ok
                    /\ HasCompatible(c))
                   => /\ Cardinality({k \in calls_c : trace[k].op = "get_project_info"}) = 1
                      /\ Cardinality({k \in calls_c : trace[k].op = "get_versions"}) = 1
                      /\ c \in Keys

\* C4 witness: a and b, resolved, both require a third project c, which was
\* fetched once and is a key; none of them is the root.
C4_Witness ==
    /\ Resolved
    /\ \E a, b, c \in Keys \ {RootSlug} :
          /\ a # b /\ a # c /\ b # c
          /\ Requires(resolved[a].version_data, c)
          /\ Requires(resolved[b].version_data, c)
          /\ ProjCalls(c) = 1

\* C5 as stated: a project whose metadata fetch failed during resolution is
\* absent from the final resolution set.
C5_FailedFetchAbsent ==
    Resolved =>
        \A d \in Projects :
            (\E k \in Calls("get_project_info", d, "resolve_deps") : ~trace[k].ok)
            => d \notin Keys

\* C5 amended: a key's metadata was fetched successfully (a failed fetch
\* stores nothing); when resolution is over, every required dependency of
\* every version gone through is a key unless a call for it failed or it has
\* no matching version; and the returned status says only whether the main
\* file was transferred.
C5_FailedFetchSkipsOnlyThatReference ==
    /\ \A d \in Keys : \E k \in Calls("get_project_info", d, "resolve_deps") : trace[k].ok
    /\ Resolved =>
          LET failed == {trace[k].arg : k \in {k \in DOMAIN trace :
                            /\ trace[k].at = "resolve_deps"
                            /\ trace[k].op \in {"get_project_info", "get_versions"}
                            /\ ~trace[k].ok}}
          IN  \A v \in Expanded : \A t \in Projects \ failed :
                  (Requires(v, t) /\ HasCompatible(t)) => t \in Keys
    /\ Returned => (ret = "True" <=> MainTransferOK)

\* C5 witness: the root's first dependency could not be fetched and is absent,
\* a later dependency of the root is a key, and the install returned True.
C5_Witness ==
    /\ Returned
    /\ ret = "True"
    /\ Len(main_version[1].dependencies) >= 2
    /\ LET d == main_version[1].dependencies[1].project_id
           t == main_version[1].dependencies[2].project_id
       IN  /\ d # t
           /\ \E k \in Calls("get_project_info", d, "resolve_deps") : ~trace[k].ok
           /\ d \notin Keys
           /\ t \in Keys

\* C6: when the root's metadata fetch failed, or no version of the root
\* matches the constraint, install_mod has returned False and made no
\* download_file call and no resolve_dependencies call.
C6_RootFailureWritesNothing ==
    LET RootFetchFailed ==
            \E k \in Calls("get_project_info", RootSlug, "fetch_root") : ~trace[k].ok
        RootVersionsEmpty ==
            \E k \in Calls("get_versions", RootSlug, "select_root_version") :
                ~trace[k].ok \/ ~HasCompatible(RootSlug)
    IN  (RootFetchFailed \/ RootVersionsEmpty) =>
            /\ pc = "exited"
            /\ ret = "False"
            /\ \A k \in DOMAIN trace :
                  trace[k].op \notin {"download_file", "resolve_dependencies", "insert"}
            /\ Keys = {}

\* C6 witness: the root has versions, none of them matches, False is returned.
C6_Witness ==
    /\ Returned
    /\ ret = "False"
    /\ registry[RootSlug] # <<>>
    /\ ~HasCompatible(RootSlug)
    /\ \E k \in Calls("get_versions", RootSlug, "select_root_version") : trace[k].ok

\* C7: True is returned only after the chosen main file was transferred; with
\* an empty main file list, or a failed main transfer, False is returned.
C7_DoneOnlyWithMainFile ==
    /\ ret = "True" => MainTransferOK
    /\ (/\ Returned
        /\ main_version # <<>>
        /\ \/ main_version[1].files = <<>>
           \/ \E k \in MainAttempts : ~trace[k].ok)
       => ret = "False"
    /\ (main_version # <<>> /\ main_version[1].files = <<>>) => MainAttempts = {}

\* C7 witness: the main transfer was started, failed, and False is returned.
C7_Witness ==
    /\ Returned
    /\ ret = "False"
    /\ \E k \in MainAttempts : ~trace[k].ok

\* C8 as stated: in a run past resolution, a transfer was started for the
\* main file and for every entry with a file, whatever transfer failed.
C8_AllTransfersAttempted ==
    (Returned /\ Resolved) =>
        /\ main_version[1].files # <<>> => MainAttempts # {}
        /\ \A p \in Keys :
              resolved[p].version_data.files # <<>> => DepAttempts(p) # {}

\* C8 amended: when install_mod returns True, exactly one transfer was started
\* for every entry with a file, whichever dependency transfers failed; no
\* dependency transfer is started unless the main file was transferred.
C8_DependencyTransfersAttempted ==
    /\ (Returned /\ ret = "True") =>
          \A p \in Keys :
              resolved[p].version_data.files # <<>> => Cardinality(DepAttempts(p)) = 1
    /\ ~MainTransferOK => \A k \in DOMAIN trace : trace[k].at # "download_deps"

\* C8 witness: a dependency transfer failed, a later one was started, and
\* install_mod returned True.
C8_Witness ==
    /\ Returned
    /\ ret = "True"
    /\ \E j, k \in DOMAIN trace :
          /\ j < k
          /\ trace[j].op = "download_file" /\ trace[j].at = "download_deps" /\ ~trace[j].ok
          /\ trace[k].op = "download_file" /\ trace[k].at = "download_deps"

\* C9: once the main file was transferred the run never returns False, the
\* loop over the dependencies can always go on, and install_mod returns True,
\* whatever dependency lookups or transfers failed.
C9_DependencyFailuresAbsorbed ==
    /\ MainTransferOK => ret # "False"
    /\ (Returned /\ MainTransferOK) => ret = "True"
    /\ pc = "download_deps" => MainTransferOK /\ ENABLED (DownloadDep \/ InstallDone)

\* C9 witness: True is returned although one dependency has no file and a
\* transfer or lookup of another one failed.
C9_Witness ==
    /\ Returned
    /\ ret = "True"
    /\ \E p \in Keys : resolved[p].version_data.files = <<>>
    /\ \E k \in DOMAIN trace :
          trace[k].at \in {"resolve_deps", "download_deps"} /\ ~trace[k].ok

\* C10: the exit status is 0 exactly when install_mod returned True, and 1
\* when it returned False, was interrupted or raised.
C10_ExitCodeReflectsOutcome ==
    pc = "exited" => (exit_code = 0 <=> ret = "True")

\* install_mod, lines 138-218: what the caller of install_mod gets is the one
\* bool it returns; the value download_file returns for a dependency (line
\* 212) is dropped and nothing else is kept on the installer
Outcome == [mainSucceeded |-> ret = "True"]

\* the file chosen for resolved project p was transferred
DepTransferred(p) ==
    /\ resolved[p].version_data.files # <<>>
    /\ \E k \in DepAttempts(p) : trace[k].ok

\* C11: the outcome of a run that ended in DONE carries, next to the main
\* file's result, a mapping from every resolved project id to whether its file
\* was transferred (false for an entry without files or a failed transfer).
C11_OutcomeReportsDependencies ==
    (Returned /\ ret = "True") =>
        /\ "dependencyResults" \in DOMAIN Outcome
        /\ DOMAIN Outcome.dependencyResults = Keys
        /\ \A p \in Keys : Outcome.dependencyResults[p] = DepTransferred(p)

\* the get_versions calls made for project p that got the registry's answer
VersionsFetched(p) ==
    {k \in DOMAIN trace : trace[k].op = "get_versions" /\ trace[k].ok /\ trace[k].arg = p}

\* C12: for every project's version list and the run's constraint, the list
\* get_versions returns has one element per matching version of the registry's
\* list, in the registry's order (its k-th element is the k-th matching one),
\* and is the whole list when both criteria are unset.
C12_FilterIsOrderedSelection ==
    \A p \in Projects :
        LET versions == registry[p]
            out      == get_versions(versions, loader, game_version)
            matching == {i \in DOMAIN versions :
                            /\ loader = Unset \/ loader \in versions[i].loaders
                            /\ game_version = Unset
                                  \/ game_version \in versions[i].game_versions}
            Kth(k)   == CHOOSE i \in matching : Cardinality({j \in matching : j <= i}) = k
        IN  /\ Len(out) = Cardinality(matching)
            /\ \A k \in DOMAIN out : out[k] = versions[Kth(k)]
            /\ (loader = Unset /\ game_version = Unset) => out = versions

\* C12 witness: LibA's list was fetched; its first version does not match the
\* constraint, its second one does and was the one selected.
C12_Witness ==
    /\ VersionsFetched(LibA) # {}
    /\ Len(registry[LibA]) >= 2
    /\ ~Compatible(registry[LibA][1], loader, game_version)
    /\ LibA \in Keys
    /\ resolved[LibA].version_data = registry[LibA][2]

\* C13: whenever resolve_dependencies stores an entry for a dependency, the
\* stored version is the compatible version whose id is the reference's
\* version_id when there is one, at whatever position, and the first
\* compatible version when version_id is unset or matches none; and a
\* reference to an unresolved project with a compatible version can always be
\* stored.
C13_PinnedOrFirstCompatible ==
    /\ [][LookupInsert =>
            LET dep        == Dep
                compatible == get_versions(registry[dep.project_id], loader, game_version)
                chosen     == resolved'[dep.project_id].version_data
                pinned     == {i \in DOMAIN compatible : compatible[i].id = dep.version_id}
            IN  /\ compatible # <<>>
                /\ (dep.version_id # NoPin /\ pinned # {})
                      => chosen.id = dep.version_id /\ \E i \in pinned : chosen = compatible[i]
                /\ (dep.version_id = NoPin \/ pinned = {}) => chosen = compatible[1]]_vars
    /\ []((/\ InLoop
           /\ IsRequired(Dep)
           /\ Dep.project_id \notin Keys
           /\ get_versions(registry[Dep.project_id], loader, game_version) # <<>>)
          => ENABLED LookupInsert)

\* C13 witness: the root's only reference pins LibA's second version, both of
\* LibA's versions match the constraint, and the second one is the entry.
C13_Witness ==
    /\ Resolved
    /\ Len(main_version[1].dependencies) = 1
    /\ main_version[1].dependencies[1].version_id = <<LibA, 2>>
    /\ Len(get_versions(registry[LibA], loader, game_version)) = 2
    /\ LibA \in Keys
    /\ resolved[LibA].version_data = registry[LibA][2]

\* C14: every pass of the main download and of the dependency loop over a
\* non-empty file list starts exactly one transfer: of the file flagged
\* primary when exactly one is, at whatever position, and of the first file
\* when none is.
C14_PrimaryOrFirstFile ==
    [][(DownloadMain \/ DownloadDep) =>
          LET files   == IF pc = "download_main" THEN main_version[1].files
                         ELSE resolved[order[dep_i]].version_data.files
              primary == {j \in DOMAIN files : files[j].primary}
              call    == trace'[Len(trace')]
          IN  files # <<>> =>
                 /\ Len(trace') = Len(trace) + 1
                 /\ call.op = "download_file"
                 /\ Cardinality(primary) = 1 => \A j \in primary : call.arg = files[j].filename
                 /\ primary = {} => call.arg = files[1].filename]_vars

\* C14 witness: the root's second file is its only primary one and was the
\* main transfer; LibA has two files, none primary, and its first one was
\* transferred.
C14_Witness ==
    /\ Returned
    /\ main_version # <<>>
    /\ LibA \in Keys
    /\ LET files     == main_version[1].files
           dep_files == resolved[LibA].version_data.files
       IN  /\ Len(files) = 2
           /\ ~files[1].primary
           /\ files[2].primary
           /\ \E k \in MainAttempts : trace[k].arg = files[2].filename
           /\ Len(dep_files) = 2
           /\ \A j \in 1..2 : ~dep_files[j].primary
           /\ \E k \in DOMAIN trace :
                 /\ trace[k].op = "download_file"
                 /\ trace[k].at = "download_deps"
                 /\ trace[k].arg = dep_files[1].filename

\* the phases of install_mod in program order, and the end of the process
Rank(phase) ==
    CASE phase = "fetch_root"          -> 1
      [] phase = "select_root_version" -> 2
      [] phase = "resolve_deps"        -> 3
      [] phase = "download_main"       -> 4
      [] phase = "download_deps"       -> 5
      [] phase = "exited"              -> 6

\* a step of install_mod itself (no exception cuts it)
Step ==
    \/ FetchRoot
    \/ SelectRootVersion
    \/ ResolveStep
    \/ DownloadMain
    \/ DownloadDep
    \/ InstallDone

\* a bound on the steps the run can still make
RunMeasure ==
    LET resolving == NumProjects * (LongestDeps + 2) + LongestDeps + 1
    IN  CASE pc = "fetch_root"          -> resolving + NumProjects + 5
          [] pc = "select_root_version" -> resolving + NumProjects + 4
          [] pc = "resolve_deps"        -> Measure + NumProjects + 3
          [] pc = "download_main"       -> NumProjects + 3
          [] pc = "download_deps"       -> Len(order) + 2 - dep_i
          [] pc = "exited"              -> 0

\* the terminal states: install_mod returned True; it returned False, or an
\* exception ended the process with status 1
Done   == pc = "exited" /\ ret = "True"
Failed == pc = "exited" /\ (ret = "False" \/ (ret = "None" /\ exit_code = 1))

\* C15: the run only moves forward through FETCH_ROOT, SELECT_ROOT_VERSION,
\* RESOLVE_DEPS, DOWNLOAD_MAIN, DOWNLOAD_DEPS, from each phase to the next one
\* or to the end; it is never stuck before the end and every step lowers a
\* non-negative measure, so it ends; at the end it is in exactly one of DONE
\* and FAILED; no registry lookup, insert or resolve call follows a file
\* transfer, and the first transfer is the main file's, made in DOWNLOAD_MAIN,
\* every other one being made in DOWNLOAD_DEPS.
C15_PhasesInOrder ==
    /\ [][/\ Rank(pc') >= Rank(pc)
          /\ (pc' # pc /\ pc' # "exited") => Rank(pc') = Rank(pc) + 1]_vars
    /\ [][Step => RunMeasure' < RunMeasure]_vars
    /\ [](RunMeasure >= 0)
    /\ [](pc # "exited" => ENABLED Step)
    /\ [](pc = "exited" => (Done /\ ~Failed) \/ (Failed /\ ~Done))
    /\ [](\A j, k \in DOMAIN trace :
             (j < k /\ trace[j].op = "download_file") =>
                 /\ trace[k].op = "download_file"
                 /\ trace[k].at = "download_deps")
    /\ [](\A k \in DOMAIN trace :
             (trace[k].op = "download_file" /\ trace[k].at # "download_deps") =>
                 /\ trace[k].at = "download_main"
                 /\ trace[k].arg = PrimaryOrFirst(main_version[1].files).filename)

\* C15 witness: a run went through all five phases, with a dependency lookup
\* and a dependency transfer, and ended in DONE.
C15_Witness ==
    /\ Done
    /\ Keys # {}
    /\ \E k \in DOMAIN trace : trace[k].op = "download_file" /\ trace[k].at = "download_deps"

\* C16: the outermost active call of resolve_dependencies works on the root
\* version; every other active call works on the version stored as the entry
\* of that version's project, which is a key; and every recursive call was
\* made right after the insert of that project.
C16_InsertBeforeRecurse ==
    /\ \A n \in DOMAIN stack :
          LET v == stack[n].version_data
          IN  IF n = 1 THEN v = main_version[1]
              ELSE /\ v.id[1] \in Keys
                   /\ resolved[v.id[1]].version_data = v
    /\ \A k \in DOMAIN trace :
          (trace[k].op = "resolve_dependencies" /\ trace[k].at = "resolve_deps") =>
              /\ k > 1
              /\ trace[k - 1].op = "insert"
              /\ trace[k - 1].arg = trace[k].arg[1]

\* C16 witness: three calls are active, the two inner ones on the entries of
\* two different projects.
C16_Witness ==
    /\ Len(stack) = 3
    /\ stack[2].version_data.id[1] # stack[3].version_data.id[1]
    /\ stack[3].version_data.id[1] \in Keys

\* the projects of the dependency graph: the root and every project some
\* version's dependency list names
GraphProjects ==
    {RootSlug} \cup
    {registry[p][i].dependencies[j].project_id :
        <<p, i, j>> \in {t \in Projects \X (1..MaxVersions) \X (1..MaxRefs) :
                            /\ t[2] \in DOMAIN registry[t[1]]
                            /\ t[3] \in DOMAIN registry[t[1]][t[2]].dependencies}}

\* C17: the number of active resolve_dependencies calls, the initial one
\* included, is at most the number of projects of the dependency graph.
C17_DepthAtMostProjects == Len(stack) <= Cardinality(GraphProjects)

RECURSIVE Closure(_, _)
\* the keys reached from the set S of keys in at most n more required
\* references, each taken from the version stored for its source
Closure(S, n) ==
    IF n = 0 THEN S
    ELSE Closure(S \cup {t \in Keys : \E p \in S : Requires(resolved[p].version_data, t)},
                 n - 1)

\* the keys the root version reaches through required references
Reachable == Closure({t \in Keys : Requires(main_version[1], t)}, NumProjects)

\* C18: a pass of the loop over a reference whose dependency_type is not
\* "required" makes no call and stores nothing; every registry call of
\* resolve_dependencies is for a project that a version gone through
\* requires; and every key is reached from the root version by required
\* references through stored versions.
C18_OnlyRequiredParticipate ==
    /\ [][(Step /\ InLoop /\ Dep.dependency_type # "required")
             => UNCHANGED <<trace, resolved, order>>]_vars
    /\ [](\A k \in DOMAIN trace :
             (/\ trace[k].at = "resolve_deps"
              /\ trace[k].op \in {"get_project_info", "get_versions", "insert"})
             => \E v \in Expanded : Requires(v, trace[k].arg))
    /\ [](Keys # {} => Keys \subseteq Reachable)

\* C18 witness: the root's only reference, to LibA, is not a required one;
\* resolution returned with no key and without any registry call, although
\* LibA and what it requires are in the registry.
C18_Witness ==
    /\ Resolved
    /\ Len(main_version[1].dependencies) = 1
    /\ main_version[1].dependencies[1].dependency_type # "required"
    /\ HasCompatible(main_version[1].dependencies[1].project_id)
    /\ Keys = {}
    /\ \A k \in DOMAIN trace : trace[k].at # "resolve_deps"

\* a lookup of project t by resolve_dependencies ended without an entry: the
\* metadata fetch failed, or get_versions gave an empty list
LookupGaveNothing(t) ==
    \E k \in DOMAIN trace :
        /\ trace[k].at = "resolve_deps"
        /\ trace[k].op \in {"get_project_info", "get_versions"}
        /\ trace[k].arg = t
        /\ \/ ~trace[k].ok
           \/ trace[k].op = "get_versions" /\ ~HasCompatible(t)

\* C19: when resolve_dependencies has returned to install_mod, every project
\* required by the root version or by a stored version is a key, or a lookup
\* of it in this run failed or found no matching version.
C19_ResultClosed ==
    Resolved =>
        \A v \in Expanded : \A j \in DOMAIN v.dependencies :
            v.dependencies[j].dependency_type = "required" =>
                \/ v.dependencies[j].project_id \in Keys
                \/ LookupGaveNothing(v.dependencies[j].project_id)

\* C19 witness: resolution returned; a stored version requires one project
\* that is a key and another one that is not, its lookup having failed.
C19_Witness ==
    /\ Resolved
    /\ \E p, t, u \in Projects :
          /\ p \in Keys /\ t \in Keys /\ u \notin Keys
          /\ p # t
          /\ Requires(resolved[p].version_data, t)
          /\ Requires(resolved[p].version_data, u)
          /\ LookupGaveNothing(u)

\* C20: no step of the run removes a key or changes the entry or the position
\* of a key; the entry of a project holds the version picked when it was
\* inserted; and every dependency transfer is of the file chosen from the
\* version some key's entry holds.
C20_EntriesWriteOnce ==
    /\ [][Step => /\ \A p \in Keys : p \in DOMAIN resolved' /\ resolved'[p] = resolved[p]
                  /\ SubSeq(order', 1, Len(order)) = order]_vars
    /\ [](\A k \in DOMAIN trace :
             trace[k].op = "insert" =>
                 /\ trace[k].arg \in Keys
                 /\ k < Len(trace)
                 /\ trace[k + 1].op = "resolve_dependencies"
                 /\ resolved[trace[k].arg].version_data.id = trace[k + 1].arg)
    /\ [](\A k \in DOMAIN trace :
             (trace[k].op = "download_file" /\ trace[k].at = "download_deps") =>
                 \E p \in Keys :
                     /\ resolved[p].version_data.files # <<>>
                     /\ trace[k].arg =
                           PrimaryOrFirst(resolved[p].version_data.files).filename)

\* C20 witness: the root refers to LibA twice, first pinned to its second
\* version and then to its first; both match the constraint; the entry and
\* the file transferred are those of the second version.
C20_Witness ==
    /\ Done
    /\ Len(main_version[1].dependencies) = 2
    /\ main_version[1].dependencies[1].version_id = <<LibA, 2>>
    /\ main_version[1].dependencies[2].version_id = <<LibA, 1>>
    /\ Len(get_versions(registry[LibA], loader, game_version)) = 2
    /\ LibA \in Keys
    /\ resolved[LibA].version_data = registry[LibA][2]
    /\ \A k \in DOMAIN trace : trace[k].ok
    /\ \E k \in DOMAIN trace :
          /\ trace[k].at = "download_deps"
          /\ trace[k].arg = PrimaryOrFirst(registry[LibA][2].files).filename

====
